---- MODULE Spec2Model ----
(***************************************************************************)
(* Model of src/src/App.tsx: the Smart Todo single-page application.       *)
(*                                                                         *)
(* JavaScript strings are sequences of one-character strings, so that      *)
(* trim(), toLowerCase() and includes() are computed as the runtime        *)
(* computes them.  A JavaScript value that is not a string (a missing id)  *)
(* is the marker Undefined.  JavaScript booleans and the numeric 0/1 a     *)
(* backend row may carry for `completed` are the strings "true", "false",  *)
(* "1", "0"; Number(x) > 0 is IsDone(x).                                   *)
(*                                                                         *)
(* The fields created_at and due_date of a Todo are never read by the      *)
(* operations modelled here and are left out of the records.               *)
(***************************************************************************)
EXTENDS Integers, Sequences, FiniteSets, TLC

VARIABLES
    user,             \* useState user: NoUser or a user id        (line 56)
    todos,            \* useState todos: sequence of Todo records  (line 55)
    newTodo,          \* useState newTodo                          (line 57)
    newDescription,   \* useState newDescription                   (line 58)
    searchTerm,       \* useState searchTerm                       (line 59)
    selectedCategory, \* useState selectedCategory                 (line 60)
    isLoading,        \* useState isLoading                        (line 61)
    isAddingTodo,     \* useState isAddingTodo                     (line 62)
    inflight,         \* the suspended async handlers, in the order they were started
    toast,            \* the notification raised by the latest step, or NoToast
    events,           \* number of user and auth events handled so far
    log,              \* history: the toggleTodo calls and their outcomes, in order
    todos0,           \* history: the collection a scenario started from
    acked,            \* history: ids of the tasks a create call was acknowledged
                      \* for, for the current user, and no delete call since
    given,            \* the value handed to ensureArray by a caller
    returned          \* what that call returned, or NotCalled

vars == <<user, todos, newTodo, newDescription, searchTerm, selectedCategory,
          isLoading, isAddingTodo, inflight, toast, events, log, todos0, acked,
          given, returned>>

----------------------------------------------------------------------------
(* Bounds of the model *)

\* user and auth events (sign in or out, typing, submit, checkbox, delete
\* button) in one behaviour; the settling of a pending call is not an event
MaxEvents == 3
\* rows in one backend list response
MaxRows == 2
\* elements of an array handed to ensureArray on its own
MaxItems == 2
\* tasks of a collection the view is computed for
MaxTasks == 3

----------------------------------------------------------------------------
(* Strings *)

Whitespace == {" ", "\n"}

UpperChars == <<"A","B","C","D","E","F","G","H","I","J","K","L","M",
                "N","O","P","Q","R","S","T","U","V","W","X","Y","Z">>
LowerChars == <<"a","b","c","d","e","f","g","h","i","j","k","l","m",
                "n","o","p","q","r","s","t","u","v","w","x","y","z">>

LowerChar(c) ==
    IF \E i \in DOMAIN UpperChars : UpperChars[i] = c
    THEN LowerChars[CHOOSE i \in DOMAIN UpperChars : UpperChars[i] = c]
    ELSE c

\* String.prototype.toLowerCase
ToLowerCase(s) == [i \in DOMAIN s |-> LowerChar(s[i])]

RECURSIVE TrimStart(_)
TrimStart(s) ==
    IF s # <<>> /\ Head(s) \in Whitespace THEN TrimStart(Tail(s)) ELSE s

RECURSIVE TrimEnd(_)
TrimEnd(s) ==
    IF s # <<>> /\ s[Len(s)] \in Whitespace
    THEN TrimEnd(SubSeq(s, 1, Len(s) - 1))
    ELSE s

\* String.prototype.trim
Trim(s) == TrimEnd(TrimStart(s))

\* s.startsWith(t) at offset k (0-based), compared character by character
RECURSIVE MatchesAt(_, _, _, _)
MatchesAt(s, t, k, j) ==
    IF j > Len(t) THEN TRUE
    ELSE IF k + j > Len(s) THEN FALSE
    ELSE IF s[k + j] # t[j] THEN FALSE
    ELSE MatchesAt(s, t, k, j + 1)

RECURSIVE IncludesFrom(_, _, _)
IncludesFrom(s, t, k) ==
    IF k + Len(t) > Len(s) THEN FALSE
    ELSE IF MatchesAt(s, t, k, 1) THEN TRUE
    ELSE IncludesFrom(s, t, k + 1)

\* String.prototype.includes
Includes(s, t) == IncludesFrom(s, t, 0)

\* the value of a property that is absent, or not a string
Undefined == <<"undefined">>

TypeofString(v) == v # Undefined

----------------------------------------------------------------------------
(* Static configuration *)

cWork     == <<"w","o","r","k">>
cPersonal == <<"p","e","r","s","o","n","a","l">>
cHealth   == <<"h","e","a","l","t","h">>
cHome     == <<"h","o","m","e">>
cLearning == <<"l","e","a","r","n","i","n","g">>
cShopping == <<"s","h","o","p","p","i","n","g">>
cOther    == <<"o","t","h","e","r">>

categories == <<cWork, cPersonal, cHealth, cHome, cLearning, cShopping, cOther>>

pLow    == <<"l","o","w">>
pMedium == <<"m","e","d","i","u","m">>
pHigh   == <<"h","i","g","h">>

priorities == <<pLow, pMedium, pHigh>>

cAll == <<"a","l","l">>

\* Array.prototype.find(x => x.id === v) is truthy
Finds(arr, v) == \E i \in DOMAIN arr : arr[i] = v

\* Number(x) > 0 for the values `completed` takes
IsDone(x) == x \in {"true", "1"}

\* a JavaScript boolean
Bool(b) == IF b THEN "true" ELSE "false"

NoUser == "null"
Users == {"u1", "u2"}

----------------------------------------------------------------------------
(* Values a backend call can resolve to *)

\* an array
JArr(items) == [kind |-> "array", items |-> items, fields |-> <<>>]
\* a plain object; fields are its own properties in Object.values order
JObj(fields) == [kind |-> "object", items |-> <<>>, fields |-> fields]
\* null: falsy, though typeof null is "object"
JNull == [kind |-> "null", items |-> <<>>, fields |-> <<>>]
\* a non-empty string: truthy, typeof "string"
JStr == [kind |-> "string", items |-> <<>>, fields |-> <<>>]

Field(k, v) == [key |-> k, value |-> v]

IsArray(v) == v.kind = "array"

HasOwn(obj, k) == \E i \in DOMAIN obj.fields : obj.fields[i].key = k

\* obj[k]
Get(obj, k) ==
    IF HasOwn(obj, k)
    THEN obj.fields[CHOOSE i \in DOMAIN obj.fields : obj.fields[i].key = k].value
    ELSE JNull

\* the for..of loop over Object.values(response): the first array value
RECURSIVE FirstArrayValue(_, _)
FirstArrayValue(fields, fallback) ==
    IF fields = <<>> THEN fallback
    ELSE IF IsArray(Head(fields).value) THEN Head(fields).value.items
    ELSE FirstArrayValue(Tail(fields), fallback)

\* variant: the `data` property is not looked at first
ensureArrayAnyKey(response, fallback) ==
    IF IsArray(response) THEN response.items
    ELSE IF response.kind = "object"
    THEN FirstArrayValue(response.fields, fallback)
    ELSE fallback

ensureArray(response, fallback) ==
    IF IsArray(response) THEN response.items
    ELSE IF response.kind = "object"
    THEN IF IsArray(Get(response, "data"))
         THEN Get(response, "data").items
         ELSE FirstArrayValue(response.fields, fallback)
    ELSE fallback

----------------------------------------------------------------------------
(* Task Classifier *)

\* what blink.ai.generateText settles to: it throws, or resolves to { text }
Threw == [threw |-> TRUE, text |-> <<>>]
Text(t) == [threw |-> FALSE, text |-> t]

\* what an async classifier settles to
Resolved(v) == [rejected |-> FALSE, value |-> v]
Rejected == [rejected |-> TRUE, value |-> <<>>]

\* variant: no try/catch around generateText, the rejection propagates
categorizeTodoUncaught(outcome) ==
    IF outcome.threw THEN Rejected
    ELSE LET category == ToLowerCase(Trim(outcome.text))
         IN  IF Finds(categories, category)
             THEN Resolved(category)
             ELSE Resolved(cOther)

categorizeTodo(outcome) ==
    IF outcome.threw THEN Resolved(cOther)
    ELSE LET category == ToLowerCase(Trim(outcome.text))
         IN  IF Finds(categories, category)
             THEN Resolved(category)
             ELSE Resolved(cOther)

prioritizeTodo(outcome) ==
    IF outcome.threw THEN Resolved(pMedium)
    ELSE LET priority == ToLowerCase(Trim(outcome.text))
         IN  IF Finds(priorities, priority)
             THEN Resolved(priority)
             ELSE Resolved(pMedium)

----------------------------------------------------------------------------
(* Load pipeline *)

\* todoArray.filter(t => typeof t.id === 'string' && t.id.trim() !== '')
ValidArray(todoArray) ==
    SelectSeq(todoArray, LAMBDA t : TypeofString(t.id) /\ Trim(t.id) # <<>>)

\* Map.prototype.set on a map kept as its entries in insertion order: an
\* existing key keeps its place and takes the new value
MapSet(m, t) ==
    IF \E j \in DOMAIN m : m[j].id = t.id
    THEN [j \in DOMAIN m |-> IF m[j].id = t.id THEN t ELSE m[j]]
    ELSE Append(m, t)

RECURSIVE MapOf(_, _)
MapOf(m, arr) ==
    IF arr = <<>> THEN m ELSE MapOf(MapSet(m, Head(arr)), Tail(arr))

\* variant: the Map is skipped, every valid row is kept
UniqueArrayKeepsAll(validArray) == validArray

\* Array.from(new Map(validArray.map(t => [t.id, t])).values())
UniqueArray(validArray) == MapOf(<<>>, validArray)

\* lines 128-132 of loadTodos
LoadedTodos(response) == UniqueArray(ValidArray(ensureArray(response, <<>>)))

----------------------------------------------------------------------------
(* Collection updates *)

Todo(id, title, description, category, priority, completed, owner) ==
    [id |-> id, title |-> title, description |-> description,
     category |-> category, priority |-> priority,
     completed |-> completed, user_id |-> owner]

\* variant: the created task is pushed at the end
WithCreatedLast(prev, createdTodo) ==
    SelectSeq(prev, LAMBDA t : t.id # createdTodo.id) \o <<createdTodo>>

\* the updater of setTodos in addTodo (lines 180-183)
WithCreated(prev, createdTodo) ==
    LET withoutDuplicate ==
            SelectSeq(ensureArray(JArr(prev), <<>>), LAMBDA t : t.id # createdTodo.id)
    IN  <<createdTodo>> \o withoutDuplicate

\* variant: the id test is dropped, every entry takes the new value
WithCompletedEverywhere(prev, id, completed) ==
    [k \in DOMAIN prev |-> [prev[k] EXCEPT !.completed = completed]]

\* the updater of setTodos in toggleTodo (lines 201-203)
WithCompleted(prev, id, completed) ==
    [k \in DOMAIN prev |->
        IF prev[k].id = id THEN [prev[k] EXCEPT !.completed = completed] ELSE prev[k]]

\* the updater of setTodos in deleteTodo (line 215)
WithoutId(prev, id) == SelectSeq(prev, LAMBDA t : t.id # id)

----------------------------------------------------------------------------
(* View: filter and counters (lines 224-235) *)

safeTodos == todos

\* variant: the description is not searched
matchesSearchTitleOnly(todo) ==
    Includes(ToLowerCase(todo.title), ToLowerCase(searchTerm))

matchesSearch(todo) ==
    \/ Includes(ToLowerCase(todo.title), ToLowerCase(searchTerm))
    \/ Includes(ToLowerCase(todo.description), ToLowerCase(searchTerm))

matchesCategory(todo) ==
    selectedCategory = cAll \/ todo.category = selectedCategory

filteredTodos ==
    SelectSeq(safeTodos, LAMBDA todo : matchesSearch(todo) /\ matchesCategory(todo))

completedCount == Len(SelectSeq(safeTodos, LAMBDA todo : IsDone(todo.completed)))

totalCount == Len(safeTodos)

remainingCount == totalCount - completedCount

highPriorityCount ==
    Len(SelectSeq(safeTodos,
                  LAMBDA todo : todo.priority = pHigh /\ ~IsDone(todo.completed)))

----------------------------------------------------------------------------
(* Notifications *)

NoToast == [kind |-> "none", text |-> "", arg |-> <<>>]
ToastError(text) == [kind |-> "error", text |-> text, arg |-> <<>>]
ToastSuccess(text) == [kind |-> "success", text |-> text, arg |-> <<>>]
\* `Todo added and auto-categorized as ${category}!`
ToastAdded(category) ==
    [kind |-> "success", text |-> "Todo added and auto-categorized as", arg |-> category]

----------------------------------------------------------------------------
(* Inputs of the environment *)

tBuy  == <<"B","u","y">>
tMilk == <<"M","i","l","k">>

\* what the user types as a title / a description
TitleInputs == {<<" ">>, tBuy}
DescriptionInputs == {<<>>, tMilk}

\* what crypto.randomUUID can return
UUIDs == {<<"a">>, <<"b">>}

\* texts the text-generation service answers with
txtShopping == <<" ","S","h","o","p","p","i","n","g","\n">>
txtLow      == <<"L","O","W">>
txtUrgent   == <<"u","r","g","e","n","t","!","!">>

CategoryOutcomes == {Text(txtShopping), Text(txtUrgent), Threw}
PriorityOutcomes == {Text(txtLow), Text(txtUrgent), Threw}

\* rows the backend holds for an owner: the list call is scoped by
\* where: { user_id } (line 125); the other columns are whatever is stored,
\* and an id can repeat
Rows(owner) ==
    {Todo(<<"a">>, tBuy, <<>>, cWork, pHigh, "false", owner),
     Todo(<<"a">>, tBuy, tMilk, txtUrgent, txtUrgent, "1", owner),
     Todo(<<"b">>, tBuy, <<>>, cWork, pHigh, "false", owner)}

\* rows whose id is blank or missing
BadRows(owner) ==
    {Todo(<<" ">>, tBuy, <<>>, cWork, pHigh, "false", owner),
     Todo(Undefined, tBuy, <<>>, cWork, pHigh, "false", owner)}

RowArrays(owner) ==
    UNION {[1..n -> Rows(owner)] : n \in 0..MaxRows}

\* shapes of the list response: the array itself, an envelope around an
\* array, or nothing that holds an array
ListResponses(owner) ==
    {JArr(a) : a \in RowArrays(owner)}
    \cup {JObj(<<Field("count", JStr), Field("data", JArr(<<bad, r>>))>>) :
              bad \in BadRows(owner), r \in Rows(owner)}
    \cup {JObj(<<Field("count", JStr)>>), JNull}

----------------------------------------------------------------------------
(* The suspended async handlers *)

Request(op, owner, id, completed, title, description, category, priority) ==
    [op |-> op, owner |-> owner, id |-> id, completed |-> completed,
     title |-> title, description |-> description,
     category |-> category, priority |-> priority]

ListRequest(owner) == Request("list", owner, <<>>, "false", <<>>, <<>>, <<>>, <<>>)
ClassifyRequest(owner, title, description) ==
    Request("classify", owner, <<>>, "false", title, description, <<>>, <<>>)
CreateRequest(owner, id, title, description, category, priority) ==
    Request("create", owner, id, "false", title, description, category, priority)
UpdateRequest(id, completed) ==
    Request("update", NoUser, id, completed, <<>>, <<>>, <<>>, <<>>)
DeleteRequest(id) ==
    Request("delete", NoUser, id, "false", <<>>, <<>>, <<>>, <<>>)

Remove(seq, i) == SubSeq(seq, 1, i - 1) \o SubSeq(seq, i + 1, Len(seq))

Pending(i, op) == i \in DOMAIN inflight /\ inflight[i].op = op

\* one more user or auth event
Event == events < MaxEvents /\ events' = events + 1

----------------------------------------------------------------------------
(* Initial state: the state after construction (lines 55-62) *)

NotCalled == <<"not called">>

Init ==
    /\ user = NoUser
    /\ todos = <<>>
    /\ newTodo = <<>>
    /\ newDescription = <<>>
    /\ searchTerm = <<>>
    /\ selectedCategory = cAll
    /\ isLoading = FALSE
    /\ isAddingTodo = FALSE
    /\ inflight = <<>>
    /\ toast = NoToast
    /\ events = 0
    /\ log = <<>>
    /\ todos0 = <<>>
    /\ acked = {}
    /\ given = JNull
    /\ returned = NotCalled

view == <<searchTerm, selectedCategory>>
form == <<newTodo, newDescription>>
probe == <<given, returned>>
history == <<log, todos0, acked>>

----------------------------------------------------------------------------
(* Auth and load *)

\* loadTodos up to its await (lines 121-127)
loadTodos(owner) ==
    /\ isLoading' = TRUE
    /\ inflight' = Append(inflight, ListRequest(owner))

\* the onAuthStateChanged callback (lines 238-243) and the effect on [user]
\* that follows the render (lines 246-250)
AuthStateChanged(u) ==
    /\ Event
    /\ user' = u
    /\ IF u # NoUser
       THEN loadTodos(u)
       ELSE UNCHANGED <<isLoading, inflight>>
    /\ toast' = NoToast
    /\ acked' = IF u = user THEN acked ELSE {}
    /\ UNCHANGED <<todos, form, view, isAddingTodo, log, todos0, probe>>

\* loadTodos after blink.db.todos.list resolved (lines 128-133, 137-139)
LoadOk(i, listed) ==
    /\ Pending(i, "list")
    /\ todos' = LoadedTodos(listed)
    /\ isLoading' = FALSE
    /\ inflight' = Remove(inflight, i)
    /\ toast' = NoToast
    /\ UNCHANGED <<user, form, view, isAddingTodo, events, history, probe>>

\* loadTodos after blink.db.todos.list rejected (lines 134-139)
LoadFail(i) ==
    /\ Pending(i, "list")
    /\ toast' = ToastError("Failed to load todos")
    /\ isLoading' = FALSE
    /\ inflight' = Remove(inflight, i)
    /\ UNCHANGED <<user, todos, form, view, isAddingTodo, events, history, probe>>

----------------------------------------------------------------------------
(* Create *)

\* onChange of the two inputs of the form (lines 366, 373)
SetNewTodo(t) ==
    /\ Event
    /\ user # NoUser
    /\ newTodo' = t
    /\ toast' = NoToast
    /\ UNCHANGED <<user, todos, newDescription, view, isLoading, isAddingTodo,
                   inflight, history, probe>>

SetNewDescription(d) ==
    /\ Event
    /\ user # NoUser
    /\ newDescription' = d
    /\ toast' = NoToast
    /\ UNCHANGED <<user, todos, newTodo, view, isLoading, isAddingTodo,
                   inflight, history, probe>>

\* addTodo up to its first await (lines 143-153), called by the button or by
\* the Enter key of either input
addTodo ==
    /\ Event
    /\ user # NoUser
    /\ toast' = NoToast
    /\ IF Trim(newTodo) = <<>>
       THEN UNCHANGED <<isAddingTodo, inflight>>
       ELSE /\ isAddingTodo' = TRUE
            /\ inflight' = Append(inflight,
                                  ClassifyRequest(user, newTodo, newDescription))
    /\ UNCHANGED <<user, todos, form, view, isLoading, history, probe>>

\* addTodo after Promise.all settled (lines 150-166): both classifiers have
\* settled, the id is drawn and the create call is issued
AddTodoClassified(i, categoryOutcome, priorityOutcome, id) ==
    /\ Pending(i, "classify")
    /\ LET category == categorizeTodo(categoryOutcome)
           priority == prioritizeTodo(priorityOutcome)
           r == inflight[i]
       IN  IF category.rejected \/ priority.rejected
           THEN /\ toast' = ToastError("Failed to add todo")
                /\ isAddingTodo' = FALSE
                /\ inflight' = Remove(inflight, i)
           ELSE /\ toast' = NoToast
                /\ isAddingTodo' = isAddingTodo
                /\ inflight' =
                       [inflight EXCEPT ![i] =
                           CreateRequest(r.owner, id, r.title, r.description,
                                         category.value, priority.value)]
    /\ UNCHANGED <<user, todos, form, view, isLoading, events, history, probe>>

\* addTodo after blink.db.todos.create resolved (lines 168-187, 191-193)
AddTodoOk(i) ==
    /\ Pending(i, "create")
    /\ LET r == inflight[i]
           createdTodo == Todo(r.id, r.title, r.description, r.category,
                               r.priority, Bool(FALSE), r.owner)
       IN  /\ todos' = WithCreated(todos, createdTodo)
           /\ toast' = ToastAdded(r.category)
    /\ newTodo' = <<>>
    /\ newDescription' = <<>>
    /\ isAddingTodo' = FALSE
    /\ inflight' = Remove(inflight, i)
    /\ acked' = IF inflight[i].owner = user
              THEN acked \cup {inflight[i].id}
              ELSE acked
    /\ UNCHANGED <<user, view, isLoading, events, log, todos0, probe>>

\* addTodo after blink.db.todos.create rejected (lines 188-193)
AddTodoFail(i) ==
    /\ Pending(i, "create")
    /\ toast' = ToastError("Failed to add todo")
    /\ isAddingTodo' = FALSE
    /\ inflight' = Remove(inflight, i)
    /\ UNCHANGED <<user, todos, form, view, isLoading, events, history, probe>>

----------------------------------------------------------------------------
(* Toggle completion *)

Logged(what, id, completed) ==
    log' = Append(log, [what |-> what, id |-> id, completed |-> completed])

\* variant: the entry is updated before the update call is awaited
toggleTodoOptimistic(id, completed) ==
    /\ toast' = NoToast
    /\ inflight' = Append(inflight, UpdateRequest(id, completed))
    /\ Logged("call", id, completed)
    /\ todos' = WithCompleted(todos, id, completed)
    /\ UNCHANGED <<user, form, view, isLoading, isAddingTodo, todos0, acked, probe>>

\* toggleTodo up to its await (lines 197-200)
toggleTodo(id, completed) ==
    /\ toast' = NoToast
    /\ IF id = <<>>
       THEN UNCHANGED <<inflight, log>>
       ELSE /\ inflight' = Append(inflight, UpdateRequest(id, completed))
            /\ Logged("call", id, completed)
    /\ UNCHANGED <<user, todos, form, view, isLoading, isAddingTodo, todos0, acked, probe>>

\* the list is on screen: signed in and not loading (lines 278, 436)
ListShown == user # NoUser /\ ~isLoading

Shown(k) ==
    /\ ListShown
    /\ k \in DOMAIN todos
    /\ matchesSearch(todos[k]) /\ matchesCategory(todos[k])

\* Checkbox onCheckedChange of a shown item (lines 469-472): the checkbox
\* shows Number(todo.completed) > 0 and reports the opposite
CheckedChange(k) ==
    /\ Event
    /\ Shown(k)
    /\ toggleTodo(todos[k].id, Bool(~IsDone(todos[k].completed)))

\* toggleTodo after blink.db.todos.update resolved (lines 201-204)
ToggleOk(i) ==
    /\ Pending(i, "update")
    /\ todos' = WithCompleted(todos, inflight[i].id, inflight[i].completed)
    /\ toast' = ToastSuccess(IF inflight[i].completed = Bool(TRUE)
                             THEN "Todo completed!"
                             ELSE "Todo marked as incomplete")
    /\ inflight' = Remove(inflight, i)
    /\ Logged("resolved", inflight[i].id, inflight[i].completed)
    /\ UNCHANGED <<user, form, view, isLoading, isAddingTodo, events, todos0, acked, probe>>

\* toggleTodo after blink.db.todos.update rejected (lines 205-208)
ToggleFail(i) ==
    /\ Pending(i, "update")
    /\ toast' = ToastError("Failed to update todo")
    /\ inflight' = Remove(inflight, i)
    /\ Logged("rejected", inflight[i].id, inflight[i].completed)
    /\ UNCHANGED <<user, todos, form, view, isLoading, isAddingTodo, events,
                   todos0, acked, probe>>

----------------------------------------------------------------------------
(* Delete *)

\* deleteTodo up to its await (lines 212-214)
deleteTodo(id) ==
    /\ toast' = NoToast
    /\ inflight' = Append(inflight, DeleteRequest(id))
    /\ UNCHANGED <<user, todos, form, view, isLoading, isAddingTodo, history, probe>>

\* onClick of the delete button of a shown item (lines 513-520)
DeleteClick(k) ==
    /\ Event
    /\ Shown(k)
    /\ deleteTodo(todos[k].id)

\* deleteTodo after blink.db.todos.delete resolved (lines 215-216)
DeleteOk(i) ==
    /\ Pending(i, "delete")
    /\ todos' = WithoutId(todos, inflight[i].id)
    /\ toast' = ToastSuccess("Todo deleted")
    /\ inflight' = Remove(inflight, i)
    /\ acked' = acked \ {inflight[i].id}
    /\ UNCHANGED <<user, form, view, isLoading, isAddingTodo, events, log, todos0, probe>>

\* variant: the entry is removed before the call settles and stays removed
DeleteFailRemoves(i) ==
    /\ Pending(i, "delete")
    /\ todos' = WithoutId(todos, inflight[i].id)
    /\ toast' = ToastError("Failed to delete todo")
    /\ inflight' = Remove(inflight, i)
    /\ UNCHANGED <<user, form, view, isLoading, isAddingTodo, events,
                   history, probe>>

\* deleteTodo after blink.db.todos.delete rejected (lines 217-220)
DeleteFail(i) ==
    /\ Pending(i, "delete")
    /\ toast' = ToastError("Failed to delete todo")
    /\ inflight' = Remove(inflight, i)
    /\ UNCHANGED <<user, todos, form, view, isLoading, isAddingTodo, events,
                   history, probe>>

----------------------------------------------------------------------------
(* The controller *)

Next ==
    \/ \E u \in Users \cup {NoUser} : AuthStateChanged(u)
    \/ \E i \in DOMAIN inflight : \E listed \in ListResponses(inflight[i].owner) :
           LoadOk(i, listed)
    \/ \E i \in DOMAIN inflight : LoadFail(i)
    \/ \E t \in TitleInputs : SetNewTodo(t)
    \/ \E d \in DescriptionInputs : SetNewDescription(d)
    \/ addTodo
    \/ \E i \in DOMAIN inflight :
           \E co \in CategoryOutcomes, po \in PriorityOutcomes, id \in UUIDs :
               AddTodoClassified(i, co, po, id)
    \/ \E i \in DOMAIN inflight : AddTodoOk(i)
    \/ \E i \in DOMAIN inflight : AddTodoFail(i)
    \/ \E k \in DOMAIN todos : CheckedChange(k)
    \/ \E i \in DOMAIN inflight : ToggleOk(i)
    \/ \E i \in DOMAIN inflight : ToggleFail(i)
    \/ \E k \in DOMAIN todos : DeleteClick(k)
    \/ \E i \in DOMAIN inflight : DeleteOk(i)
    \/ \E i \in DOMAIN inflight : DeleteFail(i)

Spec == Init /\ [][Next]_vars

----------------------------------------------------------------------------
(* Properties of the controller *)

CategorySet == {categories[i] : i \in DOMAIN categories}
PrioritySet == {priorities[i] : i \in DOMAIN priorities}

\* C1: in every reachable state no two entries of the in-memory collection
\* have the same id
C1_UniqueIds ==
    \A j, k \in DOMAIN todos : j # k => todos[j].id # todos[k].id

\* a Load has left two entries and a create call is in flight whose drawn id
\* is the id of one of them
C1_Witness ==
    /\ Len(todos) = 2
    /\ \E i \in DOMAIN inflight :
           /\ inflight[i].op = "create"
           /\ \E k \in DOMAIN todos : todos[k].id = inflight[i].id

\* C2: in every reachable state every task of the in-memory collection has a
\* category of the category set and a priority of the priority set
C2_LabelsInEnums ==
    \A k \in DOMAIN todos :
        todos[k].category \in CategorySet /\ todos[k].priority \in PrioritySet

\* C3: every task of the in-memory collection is owned by the current
\* session's user, so no task of a different owner is ever displayed: when the
\* list is on screen, every task in it has user_id = user
C3_ShownTasksOwned ==
    ListShown => \A k \in DOMAIN todos : todos[k].user_id = user

\* the steps of a Load, Create, Toggle or Delete that come before its store
\* call settles
StartsOperation ==
    \/ \E u \in Users \cup {NoUser} : AuthStateChanged(u)
    \/ addTodo
    \/ \E i \in DOMAIN inflight :
           \E co \in CategoryOutcomes, po \in PriorityOutcomes, id \in UUIDs :
               AddTodoClassified(i, co, po, id)
    \/ \E k \in DOMAIN todos : CheckedChange(k)
    \/ \E k \in DOMAIN todos : DeleteClick(k)

\* C4: a step in which the store call of a Load, Create, Toggle or Delete
\* rejects leaves the in-memory collection as it was and raises an error
\* notification, and the steps of the operation before its call settles
\* leave the collection as it was too
C4_RejectionKeepsCollection ==
    [][/\ \A i \in DOMAIN inflight :
              (LoadFail(i) \/ AddTodoFail(i) \/ ToggleFail(i) \/ DeleteFail(i))
                  => (todos' = todos /\ toast'.kind = "error")
       /\ StartsOperation => todos' = todos]_vars

\* the delete call of an id that is absent from the (empty) collection has
\* just rejected
C4_Witness ==
    /\ toast = ToastError("Failed to delete todo")
    /\ todos = <<>>
    /\ user # NoUser

\* the part of C5 about a Create whose trimmed title is empty: nothing
\* changes and no classifier or store call is issued
EmptyTitleIsNoOp ==
    (addTodo /\ Trim(newTodo) = <<>>)
        => UNCHANGED <<todos, inflight, form, isAddingTodo, isLoading, user>>

\* the task a resolved create call inserts: the request's id, title,
\* description and classifier labels, not completed
InsertedBy(r, t) ==
    /\ t.id = r.id /\ t.title = r.title /\ t.description = r.description
    /\ t.category = r.category /\ t.priority = r.priority
    /\ t.completed = Bool(FALSE)

\* C5 (as claimed): a successful Create leaves the collection equal to the
\* new task followed by the previous entries in their previous order; a
\* Create whose trimmed title is empty changes nothing and issues no call
C5_CreatedFirstThenPrevious ==
    [][/\ \A i \in DOMAIN inflight :
              AddTodoOk(i) =>
                  /\ todos' # <<>>
                  /\ InsertedBy(inflight[i], Head(todos'))
                  /\ Tail(todos') = todos
       /\ EmptyTitleIsNoOp]_vars

\* C5 (amended): a successful Create leaves the collection equal to the new
\* task followed by the previous entries whose id differs from the new
\* task's id, in their previous order; the new task has the labels the
\* Classifier returned and is not completed; a Create whose trimmed title is
\* empty changes nothing and issues no call
C5_CreatedFirstThenOthers ==
    [][/\ \A i \in DOMAIN inflight :
              AddTodoOk(i) =>
                  /\ todos' # <<>>
                  /\ InsertedBy(inflight[i], Head(todos'))
                  /\ Tail(todos') =
                         SelectSeq(todos, LAMBDA t : t.id # inflight[i].id)
       /\ \A i \in DOMAIN inflight :
              \A co \in CategoryOutcomes, po \in PriorityOutcomes, id \in UUIDs :
                  AddTodoClassified(i, co, po, id) =>
                      /\ inflight'[i].category = categorizeTodo(co).value
                      /\ inflight'[i].priority = prioritizeTodo(po).value
       /\ EmptyTitleIsNoOp]_vars

\* a Create has just inserted its task, labelled shopping/low by the
\* Classifier, in front of an entry that was there before
C5_Witness ==
    /\ toast = ToastAdded(cShopping)
    /\ Len(todos) = 2
    /\ todos[1].category = cShopping /\ todos[1].priority = pLow
    /\ todos[1].completed = Bool(FALSE)

\* what the claim expects of a classifier for an outcome of generateText
ExpectedLabel(outcome, labels, default) ==
    IF outcome.threw THEN default
    ELSE IF ToLowerCase(Trim(outcome.text)) \in labels
         THEN ToLowerCase(Trim(outcome.text))
         ELSE default

\* C6: for every outcome of the text-generation call (a valid label, text
\* outside the set, a thrown error) the classifiers return a member of their
\* set, `other` / `medium` for invalid text and errors, and the Create goes
\* on to the store's create call whatever the outcomes were
C6_ClassifierNeverBlocks ==
    [][\A i \in DOMAIN inflight :
          \A co \in CategoryOutcomes, po \in PriorityOutcomes, id \in UUIDs :
              AddTodoClassified(i, co, po, id) =>
                  /\ ~categorizeTodo(co).rejected
                  /\ ~prioritizeTodo(po).rejected
                  /\ categorizeTodo(co).value = ExpectedLabel(co, CategorySet, cOther)
                  /\ prioritizeTodo(po).value = ExpectedLabel(po, PrioritySet, pMedium)
                  /\ Len(inflight') = Len(inflight)
                  /\ inflight'[i].op = "create"
                  /\ inflight'[i].category = categorizeTodo(co).value
                  /\ inflight'[i].priority = prioritizeTodo(po).value
                  /\ inflight'[i].category \in CategorySet
                  /\ inflight'[i].priority \in PrioritySet
                  /\ toast'.kind # "error"]_vars

\* a create call is in flight for a task whose classifiers both fell back
\* to their defaults
C6_Witness ==
    \E i \in DOMAIN inflight :
        /\ inflight[i].op = "create"
        /\ inflight[i].category = cOther
        /\ inflight[i].priority = pMedium

----------------------------------------------------------------------------
(* Toggle scenarios: a signed-in user, a loaded collection on screen, and
   only the checkboxes are used *)

\* the collections a Load can leave behind
LoadedCollections(owner) == {LoadedTodos(JArr(a)) : a \in RowArrays(owner)}

InitToggle ==
    /\ user = "u1"
    /\ todos \in LoadedCollections("u1") \ {<<>>}
    /\ todos0 = todos
    /\ acked = {}
    /\ newTodo = <<>>
    /\ newDescription = <<>>
    /\ searchTerm = <<>>
    /\ selectedCategory = cAll
    /\ isLoading = FALSE
    /\ isAddingTodo = FALSE
    /\ inflight = <<>>
    /\ toast = NoToast
    /\ events = 0
    /\ log = <<>>
    /\ given = JNull
    /\ returned = NotCalled

NextToggle ==
    \/ \E k \in DOMAIN todos : CheckedChange(k)
    \/ \E i \in DOMAIN inflight : ToggleOk(i)
    \/ \E i \in DOMAIN inflight : ToggleFail(i)

SpecToggle == InitToggle /\ [][NextToggle]_vars

LogIs(k, what, id, completed) ==
    /\ k \in DOMAIN log
    /\ log[k] = [what |-> what, id |-> id, completed |-> completed]

\* the log is: toggle id to `first`, resolved, toggle id to `second`, resolved
TwoTogglesInSuccession(id, first, second) ==
    /\ Len(log) = 4
    /\ LogIs(1, "call", id, first) /\ LogIs(2, "resolved", id, first)
    /\ LogIs(3, "call", id, second) /\ LogIs(4, "resolved", id, second)

SameButCompleted(t, u) == [t EXCEPT !.completed = u.completed] = u

\* C7: toggling a task of completed state c to not-c and then to c, each to
\* completion with a successful update call and nothing in between, leaves
\* its completed state equal to c, every other field and every other task
\* unchanged, and has issued exactly two update calls
C7_ToggleTwiceRestores ==
    \A k \in DOMAIN todos0 :
        LET c == IsDone(todos0[k].completed)
        IN  TwoTogglesInSuccession(todos0[k].id, Bool(~c), Bool(c)) =>
                /\ DOMAIN todos = DOMAIN todos0
                /\ IsDone(todos[k].completed) = c
                /\ SameButCompleted(todos[k], todos0[k])
                /\ \A j \in DOMAIN todos0 : j # k => todos[j] = todos0[j]
                /\ Cardinality({n \in DOMAIN log : log[n].what = "call"}) = 2
                /\ inflight = <<>>

\* a task that the backend listed as completed ("1"), beside another task,
\* has been toggled off and on again
C7_Witness ==
    /\ Len(todos0) = 2
    /\ \E k \in DOMAIN todos0 :
           /\ todos0[k].completed = "1"
           /\ TwoTogglesInSuccession(todos0[k].id, Bool(FALSE), Bool(TRUE))

\* the last update call for id that resolved, as a position of the log
LastResolved(id) ==
    CHOOSE n \in DOMAIN log :
        /\ log[n].what = "resolved" /\ log[n].id = id
        /\ \A m \in DOMAIN log :
               (log[m].what = "resolved" /\ log[m].id = id) => m <= n

\* C8: the in-memory completed state of a task is the value passed to the
\* toggle whose update call resolved last, whatever the order the toggles
\* were started in; and an entry no update call has resolved for is as it
\* was at the start
C8_LastResolvedWins ==
    \A k \in DOMAIN todos :
        IF \E n \in DOMAIN log : log[n].what = "resolved" /\ log[n].id = todos[k].id
        THEN todos[k].completed = log[LastResolved(todos[k].id)].completed
        ELSE k \in DOMAIN todos0 /\ todos[k] = todos0[k]

\* two toggles of one task overlapped: the one to "true" was called first and
\* resolved last, after the toggle to "false" that was called later, and the
\* task is completed
C8_Witness ==
    \E k \in DOMAIN todos :
        LET id == todos[k].id
        IN  /\ Len(log) = 6
            /\ LogIs(1, "call", id, "true") /\ LogIs(2, "call", id, "true")
            /\ LogIs(3, "resolved", id, "true")
            /\ LogIs(4, "call", id, "false")
            /\ LogIs(5, "resolved", id, "false")
            /\ LogIs(6, "resolved", id, "true")
            /\ todos[k].completed = "true"

----------------------------------------------------------------------------
(* The Response Normalizer on its own *)

Items == {"x"}
ItemArrays == UNION {[1..n -> Items] : n \in 0..MaxItems}

\* values of the properties of an envelope
PropertyValues == {JArr(a) : a \in ItemArrays} \cup {JStr, JNull, JObj(<<>>)}

\* property names, in every order of insertion
Keys == {"data", "rows", "count"}
KeyOrders ==
    {ks \in UNION {[1..n -> Keys] : n \in 0..Cardinality(Keys)} :
        \A a, b \in DOMAIN ks : a # b => ks[a] # ks[b]}

Envelopes ==
    UNION {{JObj([n \in DOMAIN ks |-> Field(ks[n], vs[n])]) :
               vs \in [DOMAIN ks -> PropertyValues]} : ks \in KeyOrders}

NormalizerInputs ==
    {JArr(a) : a \in ItemArrays} \cup Envelopes \cup {JNull, JStr}

InitNormalizer ==
    /\ given \in NormalizerInputs
    /\ returned = NotCalled
    /\ user = NoUser
    /\ todos = <<>>
    /\ todos0 = <<>>
    /\ acked = {}
    /\ newTodo = <<>>
    /\ newDescription = <<>>
    /\ searchTerm = <<>>
    /\ selectedCategory = cAll
    /\ isLoading = FALSE
    /\ isAddingTodo = FALSE
    /\ inflight = <<>>
    /\ toast = NoToast
    /\ events = 0
    /\ log = <<>>

\* a call ensureArray(given), the fallback left to its default (line 41)
CallEnsureArray ==
    /\ returned = NotCalled
    /\ returned' = ensureArray(given, <<>>)
    /\ UNCHANGED <<user, todos, form, view, isLoading, isAddingTodo, inflight,
                   toast, events, history, given>>

NextNormalizer == CallEnsureArray

SpecNormalizer == InitNormalizer /\ [][NextNormalizer]_vars

ArrayFields(v) == {n \in DOMAIN v.fields : v.fields[n].value.kind = "array"}

DataFields(v) == {n \in ArrayFields(v) : v.fields[n].key = "data"}

Least(S) == CHOOSE n \in S : \A m \in S : n <= m

\* C9: ensureArray returns the input itself when it is a sequence; the
\* sequence under `data` when the input is a keyed structure whose `data`
\* is a sequence, even if another sequence comes earlier in key order;
\* otherwise the first sequence-valued field in key order; otherwise the
\* empty sequence
C9_NormalizerCases ==
    returned # NotCalled =>
        returned =
            IF given.kind = "array" THEN given.items
            ELSE IF given.kind = "object" /\ DataFields(given) # {}
            THEN given.fields[Least(DataFields(given))].value.items
            ELSE IF given.kind = "object" /\ ArrayFields(given) # {}
            THEN given.fields[Least(ArrayFields(given))].value.items
            ELSE <<>>

\* the call was given an envelope whose first property holds a sequence and
\* whose `data`, later in key order, holds another one, and returned the latter
C9_Witness ==
    /\ returned # NotCalled
    /\ given.kind = "object"
    /\ Len(given.fields) >= 2
    /\ given.fields[1].key = "rows" /\ given.fields[1].value.kind = "array"
    /\ given.fields[2].key = "data" /\ given.fields[2].value.kind = "array"
    /\ given.fields[1].value.items # given.fields[2].value.items
    /\ returned = given.fields[2].value.items

----------------------------------------------------------------------------
(* The view on its own: search box, category buttons, counters *)

\* onChange of the search box (line 406)
SetSearchTerm(t) ==
    /\ Event
    /\ user # NoUser
    /\ searchTerm' = t
    /\ toast' = NoToast
    /\ UNCHANGED <<user, todos, form, selectedCategory, isLoading, isAddingTodo,
                   inflight, history, probe>>

\* onClick of a category button (lines 413, 422)
SetSelectedCategory(c) ==
    /\ Event
    /\ user # NoUser
    /\ selectedCategory' = c
    /\ toast' = NoToast
    /\ UNCHANGED <<user, todos, form, searchTerm, isLoading, isAddingTodo,
                   inflight, history, probe>>

tmilk == <<"m","i","l","k">>

\* the columns of the tasks the view is computed for
ViewColumns ==
    {[title |-> tBuy, description |-> tMilk, category |-> cShopping,
      priority |-> pLow, completed |-> "false"],
     [title |-> tmilk, description |-> <<>>, category |-> cShopping,
      priority |-> pHigh, completed |-> "false"],
     [title |-> <<"M","i">>, description |-> <<"l","k">>, category |-> cWork,
      priority |-> pHigh, completed |-> "true"],
     [title |-> tBuy, description |-> <<>>, category |-> cWork,
      priority |-> pMedium, completed |-> "false"],
     [title |-> tBuy, description |-> <<"I","M">>, category |-> cHome,
      priority |-> pHigh, completed |-> "1"]}

PositionIds == <<"a", "b", "c", "d", "e", "f">>

\* collections with one id per position
ViewCollections ==
    {[k \in DOMAIN cs |->
         Todo(<<PositionIds[k]>>, cs[k].title, cs[k].description, cs[k].category,
              cs[k].priority, cs[k].completed, "u1")] :
        cs \in UNION {[1..n -> ViewColumns] : n \in 0..MaxTasks}}

SearchTerms == {<<>>, tmilk, <<"M","I">>, <<"k","b">>}
CategoryFilters == {cAll, cShopping, cWork, cOther}

InitView ==
    /\ user = "u1"
    /\ todos \in ViewCollections
    /\ searchTerm \in SearchTerms
    /\ selectedCategory \in CategoryFilters
    /\ todos0 = <<>>
    /\ acked = {}
    /\ newTodo = <<>>
    /\ newDescription = <<>>
    /\ isLoading = FALSE
    /\ isAddingTodo = FALSE
    /\ inflight = <<>>
    /\ toast = NoToast
    /\ events = 0
    /\ log = <<>>
    /\ given = JNull
    /\ returned = NotCalled

NextView ==
    \/ \E t \in SearchTerms : SetSearchTerm(t)
    \/ \E c \in CategoryFilters : SetSelectedCategory(c)

SpecView == InitView /\ [][NextView]_vars

\* two characters that are the same letter, whatever their case
SameLetter(a, b) ==
    \/ a = b
    \/ \E n \in DOMAIN UpperChars :
           {a, b} = {UpperChars[n], LowerChars[n]}

\* t occurs in s as a substring, case ignored
ContainsIgnoringCase(s, t) ==
    \E k \in 0..Len(s) :
        /\ k + Len(t) <= Len(s)
        /\ \A j \in 1..Len(t) : SameLetter(s[k + j], t[j])

\* the positions of the collection that are to be visible
VisiblePositions ==
    {k \in DOMAIN todos :
        /\ \/ ContainsIgnoringCase(todos[k].title, searchTerm)
           \/ ContainsIgnoringCase(todos[k].description, searchTerm)
        /\ selectedCategory = cAll \/ selectedCategory = todos[k].category}

\* the n-th position of S, in increasing order
Nth(S, n) == CHOOSE k \in S : Cardinality({m \in S : m < k}) = n - 1

Done(S) == {k \in S : todos[k].completed \in {"true", "1"}}

counters == <<completedCount, remainingCount, highPriorityCount>>

\* C10: a task is in the visible list iff its title or its description
\* contains the search term as a case-insensitive substring and the filter is
\* "all" or its category; the visible list keeps the collection's order; the
\* completed, remaining and high-priority-incomplete counters are those of
\* the full collection and do not change with the search term or the filter
C10_FilterAndCounters ==
    /\ [](/\ Len(filteredTodos) = Cardinality(VisiblePositions)
          /\ \A n \in DOMAIN filteredTodos :
                 filteredTodos[n] = todos[Nth(VisiblePositions, n)]
          /\ completedCount = Cardinality(Done(DOMAIN todos))
          /\ remainingCount = Len(todos) - Cardinality(Done(DOMAIN todos))
          /\ highPriorityCount =
                 Cardinality({k \in DOMAIN todos \ Done(DOMAIN todos) :
                                 todos[k].priority = pHigh}))
    /\ [][todos' = todos => counters' = counters]_vars

\* the search term "milk" with the filter "all" shows a task whose
\* description holds "Milk" and whose title does not hold the term, and
\* hides another task of the collection
C10_Witness ==
    /\ searchTerm = tmilk
    /\ selectedCategory = cAll
    /\ events > 0
    /\ Len(filteredTodos) < Len(todos)
    /\ \E n \in DOMAIN filteredTodos :
           /\ filteredTodos[n].title = tBuy
           /\ filteredTodos[n].description = tMilk

----------------------------------------------------------------------------
(* A Load that is still pending: the user has just signed in, the list call
   of the load effect has been issued and has not settled, and the auth state
   does not change again *)

\* the state AuthStateChanged("u1") leaves the initial state in
InitLoadPending ==
    /\ user = "u1"
    /\ todos = <<>>
    /\ newTodo = <<>>
    /\ newDescription = <<>>
    /\ searchTerm = <<>>
    /\ selectedCategory = cAll
    /\ isLoading = TRUE
    /\ isAddingTodo = FALSE
    /\ inflight = <<ListRequest("u1")>>
    /\ toast = NoToast
    /\ events = 0
    /\ log = <<>>
    /\ todos0 = <<>>
    /\ acked = {}
    /\ given = JNull
    /\ returned = NotCalled

NextLoadPending ==
    \/ \E i \in DOMAIN inflight : \E listed \in ListResponses(inflight[i].owner) :
           LoadOk(i, listed)
    \/ \E i \in DOMAIN inflight : LoadFail(i)
    \/ \E t \in TitleInputs : SetNewTodo(t)
    \/ \E d \in DescriptionInputs : SetNewDescription(d)
    \/ addTodo
    \/ \E i \in DOMAIN inflight :
           \E co \in CategoryOutcomes, po \in PriorityOutcomes, id \in UUIDs :
               AddTodoClassified(i, co, po, id)
    \/ \E i \in DOMAIN inflight : AddTodoOk(i)
    \/ \E i \in DOMAIN inflight : AddTodoFail(i)
    \/ \E k \in DOMAIN todos : CheckedChange(k)
    \/ \E i \in DOMAIN inflight : ToggleOk(i)
    \/ \E i \in DOMAIN inflight : ToggleFail(i)
    \/ \E k \in DOMAIN todos : DeleteClick(k)
    \/ \E i \in DOMAIN inflight : DeleteOk(i)
    \/ \E i \in DOMAIN inflight : DeleteFail(i)

SpecLoadPending == InitLoadPending /\ [][NextLoadPending]_vars

\* C11: a task whose create call was acknowledged and inserted stays in the
\* in-memory collection until a delete call for its id succeeds or the user
\* changes, also when the Load started before the Create completes after it:
\* every acknowledged id has an entry in the collection
C11_CreatedTaskStays ==
    \A id \in acked : \E k \in DOMAIN todos : todos[k].id = id

============================================================================
